---- MODULE Spec2Model ----
(***************************************************************************)
(* text_to_audio_converter.py: a payload is base64-encoded, prefixed with  *)
(* "ENCODED_TEXT:", and written one PCM sample per byte into a WAV file;   *)
(* the decoder inverts the scaling, searches the marker and base64-decodes *)
(* what follows it.  Bytes are integers 0..255, byte strings are sequences *)
(* of them.  The WAV container is kept as the wave module presents it: the *)
(* sample width, the channel count and the raw little-endian sample bytes. *)
(***************************************************************************)
EXTENDS Integers, Sequences, FiniteSets, TLC

VARIABLES
    text_data,         \* content of the input text file (the payload)
    wav_file,          \* the WAV path: absent, a 0-byte file, or a WAV container
    output_text_file,  \* the decoder's output path: absent or a file with content
    data_with_header,  \* text_to_wav's local: the frame it built last
    decoded_bytes,     \* wav_to_text's local: the inverse-scaled byte stream
    encoded_data,      \* wav_to_text's local: what follows the first marker
    last,              \* the operation that ran last and how it ended
    exit_code,         \* exit status of the last command-line run, -1 before any
    origin,            \* where the content of wav_file comes from
    phase              \* position in the session

vars == <<text_data, wav_file, output_text_file, data_with_header,
          decoded_bytes, encoded_data, last, exit_code, origin, phase>>

-----------------------------------------------------------------------------
(* Bounds of the model *)

MaxPayloadLen == 4
MaxForeignSamples == 2

-----------------------------------------------------------------------------
(* Byte strings *)

Byte == 0..255

\* b"ENCODED_TEXT:"
header == <<69, 78, 67, 79, 68, 69, 68, 95, 84, 69, 88, 84, 58>>

RECURSIVE SeqsUpTo(_, _)
SeqsUpTo(S, n) ==
    IF n = 0 THEN {<<>>}
    ELSE LET shorter == SeqsUpTo(S, n - 1)
         IN shorter \cup {Append(s, x) : s \in {t \in shorter : Len(t) = n - 1}, x \in S}

\* s[from..] with a 1-based from that may be Len(s) + 1
Slice(s, from) == [i \in 1..(Len(s) - from + 1) |-> s[from + i - 1]]

Prefix(s, n) == [i \in 1..n |-> s[i]]

MatchesAt(hay, needle, p) ==
    /\ p + Len(needle) - 1 <= Len(hay)
    /\ \A j \in 1..Len(needle) : hay[p + j - 1] = needle[j]

Occurrences(hay, needle) == {p \in 1..Len(hay) : MatchesAt(hay, needle, p)}

\* bytes.find: 0-based index of the first occurrence, -1 when there is none
Find(hay, needle) ==
    LET occ == Occurrences(hay, needle)
    IN IF occ = {} THEN -1
       ELSE (CHOOSE p \in occ : \A q \in occ : p <= q) - 1

-----------------------------------------------------------------------------
(* base64, as the standard library computes it *)

\* the URL-safe alphabet in place of the standard one
B64CharUrlSafe(v) ==
    IF v < 26 THEN 65 + v
    ELSE IF v < 52 THEN 97 + (v - 26)
    ELSE IF v < 62 THEN 48 + (v - 52)
    ELSE IF v = 62 THEN 45 ELSE 95

B64Char(v) ==
    IF v < 26 THEN 65 + v
    ELSE IF v < 52 THEN 97 + (v - 26)
    ELSE IF v < 62 THEN 48 + (v - 52)
    ELSE IF v = 62 THEN 43 ELSE 47

\* table_a2b_base64: 64 for a byte outside the alphabet
B64Index(ch) ==
    IF ch >= 65 /\ ch <= 90 THEN ch - 65
    ELSE IF ch >= 97 /\ ch <= 122 THEN ch - 97 + 26
    ELSE IF ch >= 48 /\ ch <= 57 THEN ch - 48 + 52
    ELSE IF ch = 43 THEN 62
    ELSE IF ch = 47 THEN 63 ELSE 64

b64encode(s) ==
    LET n == Len(s)
        byteAt(i) == IF i <= n THEN s[i] ELSE 0
        charAt(j) ==
            LET g == (j - 1) \div 4
                pos == (j - 1) % 4
                b1 == byteAt(3 * g + 1)
                b2 == byteAt(3 * g + 2)
                b3 == byteAt(3 * g + 3)
                v == CASE pos = 0 -> b1 \div 4
                       [] pos = 1 -> (b1 % 4) * 16 + (b2 \div 16)
                       [] pos = 2 -> (b2 % 16) * 4 + (b3 \div 64)
                       [] pos = 3 -> b3 % 64
                pad == \/ pos = 2 /\ 3 * g + 2 > n
                       \/ pos = 3 /\ 3 * g + 3 > n
            IN IF pad THEN 61 ELSE B64Char(v)
    IN [j \in 1..(4 * ((n + 2) \div 3)) |-> charAt(j)]

\* binascii.a2b_base64 without strict mode, one input byte: bytes outside
\* the alphabet are skipped, a complete pad sequence ends the parse
a2b_step(st, ch) ==
    IF st.done THEN st
    ELSE IF ch = 61
    THEN IF st.quad_pos >= 2 /\ st.quad_pos + st.pads + 1 >= 4
         THEN [st EXCEPT !.done = TRUE]
         ELSE IF st.quad_pos >= 2 THEN [st EXCEPT !.pads = @ + 1] ELSE st
    ELSE LET v == B64Index(ch) IN
         IF v >= 64 THEN st
         ELSE CASE st.quad_pos = 0 ->
                     [st EXCEPT !.quad_pos = 1, !.leftchar = v, !.pads = 0]
                [] st.quad_pos = 1 ->
                     [st EXCEPT !.quad_pos = 2, !.leftchar = v % 16, !.pads = 0,
                                !.out = Append(@, st.leftchar * 4 + (v \div 16))]
                [] st.quad_pos = 2 ->
                     [st EXCEPT !.quad_pos = 3, !.leftchar = v % 4, !.pads = 0,
                                !.out = Append(@, st.leftchar * 16 + (v \div 4))]
                [] st.quad_pos = 3 ->
                     [st EXCEPT !.quad_pos = 0, !.leftchar = 0, !.pads = 0,
                                !.out = Append(@, st.leftchar * 64 + v)]

\* the loop over s[lo..hi], halved so that long inputs nest shallowly; the
\* state after the first half is computed (the test on it is always true)
\* before the second half is entered
RECURSIVE a2b_loop(_, _, _, _)
a2b_loop(s, lo, hi, st) ==
    IF lo > hi THEN st
    ELSE IF lo = hi THEN a2b_step(st, s[lo])
    ELSE LET mid == (lo + hi) \div 2
             left == a2b_loop(s, lo, mid, st)
         IN IF left.quad_pos >= 0 THEN a2b_loop(s, mid + 1, hi, left) ELSE left

\* an incomplete final quad is an error (binascii.Error)
a2b_base64(s) ==
    LET st == a2b_loop(s, 1, Len(s),
                       [quad_pos |-> 0, leftchar |-> 0, pads |-> 0,
                        out |-> <<>>, done |-> FALSE])
    IN IF ~st.done /\ st.quad_pos # 0
       THEN [ok |-> FALSE, data |-> <<>>]
       ELSE [ok |-> TRUE, data |-> st.out]

\* the input padded with "=" to a multiple of four before decoding
b64decodePadded(s) ==
    a2b_base64(s \o [i \in 1..((4 - (Len(s) % 4)) % 4) |-> 61])

b64decode(s) == a2b_base64(s)

-----------------------------------------------------------------------------
(* struct.pack / struct.unpack for the three formats the program uses *)

FormatSize(fmt) == CASE fmt = "B" -> 1 [] fmt = "<h" -> 2 [] fmt = "<i" -> 4

FormatMin(fmt) ==
    CASE fmt = "B" -> 0 [] fmt = "<h" -> -32768 [] fmt = "<i" -> -2147483647 - 1

FormatMax(fmt) ==
    CASE fmt = "B" -> 255 [] fmt = "<h" -> 32767 [] fmt = "<i" -> 2147483647

\* struct.error when the value does not fit the format
PackFits(fmt, v) == FormatMin(fmt) <= v /\ v <= FormatMax(fmt)

\* big-endian byte order
struct_pack_big_endian(fmt, v) ==
    CASE fmt = "B" -> <<v % 256>>
      [] fmt = "<h" -> <<(v \div 256) % 256, v % 256>>
      [] fmt = "<i" -> <<(v \div 16777216) % 256, (v \div 65536) % 256,
                         (v \div 256) % 256, v % 256>>

\* little-endian two's complement
struct_pack(fmt, v) ==
    CASE fmt = "B" -> <<v % 256>>
      [] fmt = "<h" -> <<v % 256, (v \div 256) % 256>>
      [] fmt = "<i" -> <<v % 256, (v \div 256) % 256,
                         (v \div 65536) % 256, (v \div 16777216) % 256>>

Signed8(b) == IF b >= 128 THEN b - 256 ELSE b

struct_unpack(fmt, b) ==
    CASE fmt = "B" -> b[1]
      [] fmt = "<h" -> b[1] + 256 * Signed8(b[2])
      [] fmt = "<i" -> b[1] + 256 * b[2] + 65536 * b[3] + 16777216 * Signed8(b[4])

-----------------------------------------------------------------------------
(* Files *)

NoFile == [kind |-> "absent", sampwidth |-> 0, nchannels |-> 0, raw |-> <<>>]

\* a file of zero bytes: created by open(..., 'wb') and never given a header
EmptyFile == [kind |-> "empty", sampwidth |-> 0, nchannels |-> 0, raw |-> <<>>]

WavFile(w, c, raw) == [kind |-> "wav", sampwidth |-> w, nchannels |-> c, raw |-> raw]

NoOutput == [exists |-> FALSE, data |-> <<>>]

OutputFile(data) == [exists |-> TRUE, data |-> data]

\* mono; the sample rate (44100) plays no part in either direction
num_channels == 1

-----------------------------------------------------------------------------
(* text_to_wav *)

SupportedDepths == {8, 16, 32}

\* the branch of the loop body taken for a depth: "" when none is
SampleFormat(bits_per_sample) ==
    IF bits_per_sample = 8 THEN "B"
    ELSE IF bits_per_sample = 16 THEN "<h"
    ELSE IF bits_per_sample = 32 THEN "<i"
    ELSE ""

\* the 16-bit multiplier one short
scaled_value_255(bits_per_sample, byte) ==
    IF bits_per_sample = 8 THEN byte
    ELSE IF bits_per_sample = 16 THEN (byte - 128) * 255
    ELSE (byte - 128) * 16777216

scaled_value(bits_per_sample, byte) ==
    IF bits_per_sample = 8 THEN byte
    ELSE IF bits_per_sample = 16 THEN (byte - 128) * 256
    ELSE (byte - 128) * 16777216

\* the loop over data_with_header: one writeframes per byte; a byte whose
\* sample does not fit its format raises struct.error and ends the loop
WriteFrames(bits_per_sample, frame) ==
    LET fmt == SampleFormat(bits_per_sample)
        w == FormatSize(fmt)
        bad == {i \in 1..Len(frame) : ~PackFits(fmt, scaled_value(bits_per_sample, frame[i]))}
        n == IF bad = {} THEN Len(frame)
             ELSE (CHOOSE i \in bad : \A j \in bad : i <= j) - 1
    IN [raw |-> [k \in 1..(n * w) |->
                    struct_pack(fmt, scaled_value(bits_per_sample,
                                                  frame[((k - 1) \div w) + 1]))[((k - 1) % w) + 1]],
        raised |-> IF bad = {} THEN "none" ELSE "struct.error"]

\* the payload appended as it is, without the base64 step
BuildFrameRaw(text) == header \o text

BuildFrame(text) == header \o b64encode(text)

\* The whole call.  wave.open(wav_file, 'w') creates or truncates the file
\* before anything else; setsampwidth rejects widths outside 1..4 and the
\* file is then left empty; otherwise the header is written on close with the
\* frames the loop wrote.
text_to_wav(text, bits_per_sample) ==
    LET frame == BuildFrame(text)
        width == bits_per_sample \div 8
    IN IF width < 1 \/ width > 4
       THEN [wav |-> EmptyFile, frame |-> frame, raised |-> "wave.Error"]
       ELSE IF SampleFormat(bits_per_sample) = ""
       THEN [wav |-> WavFile(width, num_channels, <<>>), frame |-> frame, raised |-> "none"]
       ELSE LET written == WriteFrames(bits_per_sample, frame)
            IN [wav |-> WavFile(width, num_channels, written.raw),
                frame |-> frame, raised |-> written.raised]

-----------------------------------------------------------------------------
(* wav_to_text *)

Min(a, b) == IF a <= b THEN a ELSE b

Max(a, b) == IF a >= b THEN a ELSE b

WidthFormat(sample_width) ==
    CASE sample_width = 1 -> "B" [] sample_width = 2 -> "<h" [] sample_width = 4 -> "<i"

\* division rounding toward zero, for a positive divisor
TruncDiv(a, b) == IF a >= 0 \/ a % b = 0 THEN a \div b ELSE (a \div b) + 1

\* the inverse scaling with a division that truncates toward zero
InverseScaleTruncating(sample_width, value) ==
    IF sample_width = 1 THEN value
    ELSE IF sample_width = 2 THEN Min(255, Max(0, TruncDiv(value, 256) + 128))
    ELSE Min(255, Max(0, TruncDiv(value, 16777216) + 128))

\* Python's // is floor division, as \div is
InverseScale(sample_width, value) ==
    IF sample_width = 1 THEN value
    ELSE IF sample_width = 2 THEN Min(255, Max(0, (value \div 256) + 128))
    ELSE Min(255, Max(0, (value \div 16777216) + 128))

SampleAt(wav, i) ==
    struct_unpack(WidthFormat(wav.sampwidth),
                  SubSeq(wav.raw, (i - 1) * wav.sampwidth + 1, i * wav.sampwidth))

DecodeSamples(wav) ==
    [i \in 1..(Len(wav.raw) \div wav.sampwidth) |->
        InverseScale(wav.sampwidth, SampleAt(wav, i))]

HandledWidths == {1, 2, 4}

\* the output file opened before b64decode is called
DecodeAndWriteOpenFirst(encoded, out) ==
    LET original_data == b64decode(encoded)
    IN IF original_data.ok
       THEN [out |-> OutputFile(original_data.data), outcome |-> "Success"]
       ELSE [out |-> OutputFile(<<>>), outcome |-> "CorruptPayload"]

\* The try block: the output file is opened only after b64decode returned;
\* any exception of the block is caught and reported
DecodeAndWrite(encoded, out) ==
    LET original_data == b64decode(encoded)
    IN IF original_data.ok
       THEN [out |-> OutputFile(original_data.data), outcome |-> "Success"]
       ELSE [out |-> out, outcome |-> "CorruptPayload"]

\* The whole call: what it leaves in the output file, its locals, the
\* exception it ends with ("none" when it returns) and what it reports.
\* decoded_bytes is bound only in the branches for widths 1, 2 and 4.
wav_to_text(wav, out) ==
    LET quiet == [out |-> out, decoded_bytes |-> <<>>, encoded_data |-> <<>>]
    IN IF wav.kind = "absent"
       THEN quiet @@ [raised |-> "FileNotFoundError", outcome |-> "Raised"]
       ELSE IF wav.kind = "empty"
       THEN quiet @@ [raised |-> "EOFError", outcome |-> "Raised"]
       ELSE IF wav.sampwidth \notin HandledWidths
       THEN quiet @@ [raised |-> "UnboundLocalError", outcome |-> "Raised"]
       ELSE LET decoded == DecodeSamples(wav) IN
            IF Find(decoded, header) # -1
            THEN LET start_idx == Find(decoded, header) + Len(header)
                     encoded == Slice(decoded, start_idx + 1)
                     done == DecodeAndWrite(encoded, out)
                 IN [out |-> done.out, decoded_bytes |-> decoded,
                     encoded_data |-> encoded, raised |-> "none",
                     outcome |-> done.outcome]
            ELSE [out |-> out, decoded_bytes |-> decoded, encoded_data |-> <<>>,
                  raised |-> "none", outcome |-> "NotEncoded"]

-----------------------------------------------------------------------------
(* Inputs *)

PayloadBytes == {0, 69, 255}

\* b"Hello", and a payload that itself holds the marker
Hello == <<72, 101, 108, 108, 111>>

Payloads == SeqsUpTo(PayloadBytes, MaxPayloadLen) \cup {Hello, header, header \o Hello}

\* depths a caller may pass, supported or not
BitDepths == {0, 8, 12, 16, 24, 32, 64}

\* what the paths hold before the session
OldWav == WavFile(1, 1, <<79, 76, 68>>)

OldOutput == OutputFile(<<79, 76, 68>>)

\* Sample values of WAV files other programs wrote, per sample width, as
\* the bytes the container holds for them
ForeignSamples(w) ==
    CASE w = 1 -> {<<b>> : b \in {0, 69, 128, 255}}
      [] w = 2 -> {struct_pack("<h", v) :
                     v \in {-32768, -257, -256, -255, -1, 0, 1, 255, 256, 32767}}
      [] w = 3 -> {<<0, 0, 0>>, <<255, 255, 255>>, <<1, 0, 128>>}
      [] w = 4 -> {struct_pack("<i", v) :
                     v \in {-2147483647 - 1, -16777217, -16777216, -16777215, -1,
                            0, 1, 16777215, 16777216, 2147483647}}

RECURSIVE Flatten(_)
Flatten(ss) == IF ss = <<>> THEN <<>> ELSE Head(ss) \o Flatten(Tail(ss))

\* any width the container allows, mono or stereo, whole frames only
ForeignWavs ==
    UNION {{WavFile(p[1], p[2], Flatten(ss)) :
               ss \in {t \in SeqsUpTo(ForeignSamples(p[1]), MaxForeignSamples) :
                          Len(t) % p[2] = 0}} :
           p \in (1..4) \X (1..2)}

\* WAV files of other origin whose samples happen to hold the marker
MarkedWavs ==
    {WavFile(1, 1, <<0, 69>> \o header \o b64encode(Hello)),
     WavFile(1, 1, header \o <<83, 10, 71, 86, 115, 33>>),
     WavFile(1, 1, <<69>> \o header \o <<83, 71, 86>>)}

\* sys.argv of a command-line run
Argvs ==
    {<<"script.py">>,
     <<"script.py", "decode">>,
     <<"script.py", "encode", "input">>,
     <<"script.py", "decode", "input">>,
     <<"script.py", "encode", "input", "output">>,
     <<"script.py", "ENCODE", "input", "output">>,
     <<"script.py", "decode", "input", "output">>,
     <<"script.py", "play", "input", "output">>}

\* str.lower on the commands above
Lower(str) ==
    CASE str = "ENCODE" -> "encode"
      [] OTHER -> str

-----------------------------------------------------------------------------
(* The command line *)

\* Which branch of the __main__ block an argument vector takes.  sys.argv[1]
\* is argv[2] here: sequences are 1-based.
main(argv) ==
    IF Len(argv) < 3 THEN "usage"
    ELSE LET command == Lower(argv[2]) IN
         IF command = "encode"
         THEN IF Len(argv) < 4 THEN "usage" ELSE "text_to_wav"
         ELSE IF command = "decode"
         THEN IF Len(argv) < 4 THEN "usage" ELSE "wav_to_text"
         ELSE "unknown"

\* sys.exit(1) on the usage branches; an uncaught exception ends the
\* interpreter with status 1; falling off the end of the script is status 0
ExitStatus(branch, raised) ==
    IF branch = "usage" THEN 1
    ELSE IF raised # "none" THEN 1
    ELSE 0

-----------------------------------------------------------------------------
(* The session: at most one encoding, then possibly a truncation of the    *)
(* WAV file by its holder, then one decoding; each step is a library call  *)
(* or a command-line run.                                                  *)

NoCall == [op |-> "none", argv |-> <<>>, bits |-> 0, outcome |-> "none", raised |-> "none"]

Call(op, argv, bits, raised, outcome) ==
    [op |-> op, argv |-> argv, bits |-> bits, outcome |-> outcome, raised |-> raised]

EncodeOutcome(raised) == IF raised = "none" THEN "Success" ELSE "Raised"

Init ==
    /\ \E pair \in (Payloads \X {NoFile, OldWav})
                     \cup ({<<>>} \X (ForeignWavs \cup MarkedWavs)) :
          /\ text_data = pair[1]
          /\ wav_file = pair[2]
    /\ output_text_file \in {NoOutput, OldOutput}
    /\ data_with_header = <<>>
    /\ decoded_bytes = <<>>
    /\ encoded_data = <<>>
    /\ last = NoCall
    /\ exit_code = -1
    /\ origin = [kind |-> "initial", bits |-> 0, dropped |-> 0]
    /\ phase = "start"

\* text_to_wav(text_file, wav_file, bits_per_sample) called as a function
Encode ==
    \E bits \in BitDepths :
        /\ phase = "start"
        /\ LET r == text_to_wav(text_data, bits) IN
              /\ wav_file' = r.wav
              /\ data_with_header' = r.frame
              /\ last' = Call("text_to_wav", <<>>, bits, r.raised, EncodeOutcome(r.raised))
        /\ origin' = [kind |-> "encoded", bits |-> bits, dropped |-> 0]
        /\ phase' = "written"
        /\ UNCHANGED <<text_data, output_text_file, decoded_bytes, encoded_data, exit_code>>

\* the holder of an encoded WAV file drops k trailing samples of the base64
\* part; the marker stays whole
Truncate ==
    \E k \in 1..(Len(data_with_header) - Len(header)) :
        /\ phase = "written"
        /\ origin.bits \in SupportedDepths
        /\ last.raised = "none"
        /\ wav_file' = [wav_file EXCEPT
                          !.raw = Prefix(@, Len(@) - k * wav_file.sampwidth)]
        /\ origin' = [origin EXCEPT !.kind = "truncated", !.dropped = k]
        /\ last' = Call("truncate", <<>>, 0, "none", "none")
        /\ phase' = "tampered"
        /\ UNCHANGED <<text_data, output_text_file, data_with_header, decoded_bytes,
                       encoded_data, exit_code>>

\* wav_to_text(wav_file, output_text_file) called as a function
Decode ==
    /\ phase # "done"
    /\ LET r == wav_to_text(wav_file, output_text_file) IN
          /\ output_text_file' = r.out
          /\ decoded_bytes' = r.decoded_bytes
          /\ encoded_data' = r.encoded_data
          /\ last' = Call("wav_to_text", <<>>, 0, r.raised, r.outcome)
    /\ phase' = "done"
    /\ UNCHANGED <<text_data, wav_file, data_with_header, exit_code, origin>>

\* one run of the script; a run that reads no WAV file (an encoding, a usage
\* error, an unknown command) is taken at the start of the session only
Main ==
    \E argv \in Argvs :
        LET branch == main(argv) IN
        /\ phase # "done"
        /\ branch # "wav_to_text" => phase = "start"
        /\ IF branch = "text_to_wav"
           THEN LET r == text_to_wav(text_data, 16) IN
                /\ wav_file' = r.wav
                /\ data_with_header' = r.frame
                /\ last' = Call("main", argv, 16, r.raised, EncodeOutcome(r.raised))
                /\ exit_code' = ExitStatus(branch, r.raised)
                /\ origin' = [kind |-> "encoded", bits |-> 16, dropped |-> 0]
                /\ phase' = "written"
                /\ UNCHANGED <<text_data, output_text_file, decoded_bytes, encoded_data>>
           ELSE IF branch = "wav_to_text"
           THEN LET r == wav_to_text(wav_file, output_text_file) IN
                /\ output_text_file' = r.out
                /\ decoded_bytes' = r.decoded_bytes
                /\ encoded_data' = r.encoded_data
                /\ last' = Call("main", argv, 0, r.raised, r.outcome)
                /\ exit_code' = ExitStatus(branch, r.raised)
                /\ phase' = "done"
                /\ UNCHANGED <<text_data, wav_file, data_with_header, origin>>
           ELSE /\ last' = Call("main", argv, 0, "none",
                                IF branch = "usage" THEN "Usage" ELSE "UnknownCommand")
                /\ exit_code' = ExitStatus(branch, "none")
                /\ phase' = "done"
                /\ UNCHANGED <<text_data, wav_file, output_text_file, data_with_header,
                               decoded_bytes, encoded_data, origin>>

Next == Encode \/ Truncate \/ Decode \/ Main

Spec == Init /\ [][Next]_vars

-----------------------------------------------------------------------------
(* The sample scaling alone: the loop body of text_to_wav applied to a     *)
(* frame of one arbitrary byte, then the decoder's loop on what it wrote.  *)

InitScale ==
    /\ text_data = <<>>
    /\ wav_file = NoFile
    /\ output_text_file = NoOutput
    /\ data_with_header \in {<<b>> : b \in Byte}
    /\ decoded_bytes = <<>>
    /\ encoded_data = <<>>
    /\ last = NoCall
    /\ exit_code = -1
    /\ origin \in {[kind |-> "frame", bits |-> d, dropped |-> 0] : d \in SupportedDepths}
    /\ phase = "frame"

ScaleFrame ==
    /\ phase = "frame"
    /\ LET written == WriteFrames(origin.bits, data_with_header) IN
          /\ wav_file' = WavFile(origin.bits \div 8, num_channels, written.raw)
          /\ last' = Call("writeframes", <<>>, origin.bits, written.raised,
                          EncodeOutcome(written.raised))
    /\ phase' = "scaled"
    /\ UNCHANGED <<text_data, output_text_file, data_with_header, decoded_bytes,
                   encoded_data, exit_code, origin>>

UnscaleFrame ==
    /\ phase = "scaled"
    /\ decoded_bytes' = DecodeSamples(wav_file)
    /\ last' = Call("readframes", <<>>, origin.bits, "none", "none")
    /\ phase' = "unscaled"
    /\ UNCHANGED <<text_data, wav_file, output_text_file, data_with_header,
                   encoded_data, exit_code, origin>>

NextScale == ScaleFrame \/ UnscaleFrame

SpecScale == InitScale /\ [][NextScale]_vars

-----------------------------------------------------------------------------
(* The codec on a wider payload domain: every single-byte payload and the  *)
(* payload of all 256 byte values, encoded and decoded without tampering.  *)

AllBytes == [i \in 1..256 |-> i - 1]

WidePayloads == Payloads \cup {<<b>> : b \in Byte} \cup {AllBytes}

InitCodec ==
    /\ text_data \in WidePayloads
    /\ wav_file = NoFile
    /\ output_text_file \in {NoOutput, OldOutput}
    /\ data_with_header = <<>>
    /\ decoded_bytes = <<>>
    /\ encoded_data = <<>>
    /\ last = NoCall
    /\ exit_code = -1
    /\ origin = [kind |-> "initial", bits |-> 0, dropped |-> 0]
    /\ phase = "start"

NextCodec == Encode \/ Decode \/ Main

SpecCodec == InitCodec /\ [][NextCodec]_vars

-----------------------------------------------------------------------------
(* The decoder on WAV files of other origin holding one sample: every      *)
(* 16-bit sample, and the 32-bit samples next to each multiple of 2^24.    *)

Samples16 == -32768..32767

Samples32 == {m * 16777216 + e : m \in -128..127, e \in {0, 1, 16777215}}

\* mono files of one sample of width w
SampleWavs(w) ==
    IF w = 2 THEN {WavFile(2, 1, struct_pack("<h", v)) : v \in Samples16}
             ELSE {WavFile(4, 1, struct_pack("<i", v)) : v \in Samples32}

InitSamples ==
    /\ text_data = <<>>
    /\ wav_file \in SampleWavs(2) \cup SampleWavs(4) \cup ForeignWavs
    /\ output_text_file = NoOutput
    /\ data_with_header = <<>>
    /\ decoded_bytes = <<>>
    /\ encoded_data = <<>>
    /\ last = NoCall
    /\ exit_code = -1
    /\ origin = [kind |-> "initial", bits |-> 0, dropped |-> 0]
    /\ phase = "start"

NextSamples == Decode

SpecSamples == InitSamples /\ [][NextSamples]_vars

-----------------------------------------------------------------------------
(* Properties *)

RanEncoder ==
    \/ last.op = "text_to_wav"
    \/ last.op = "main" /\ main(last.argv) = "text_to_wav"

RanDecoder ==
    \/ last.op = "wav_to_text"
    \/ last.op = "main" /\ main(last.argv) = "wav_to_text"

\* wav_file is what text_to_wav wrote at a supported depth, untouched since
EncoderMade == origin.kind = "encoded" /\ origin.bits \in SupportedDepths

\* C1: decoding the WAV that text_to_wav produced from a payload at depth 8,
\* 16 or 32 succeeds and leaves exactly the payload in the output file.
RoundTrip ==
    (RanDecoder /\ EncoderMade) =>
        /\ last.outcome = "Success"
        /\ output_text_file = OutputFile(text_data)

RoundTripWitness ==
    /\ RanDecoder /\ EncoderMade
    /\ origin.bits = 32
    /\ text_data = AllBytes
    /\ output_text_file.exists

\* C2: a call of text_to_wav with a depth outside {8, 16, 32} ends in
\* UnsupportedBitDepth and leaves the WAV path as it was.
BitDepthValidation ==
    [][(last'.op = "text_to_wav" /\ last'.bits \notin SupportedDepths) =>
          (last'.raised = "UnsupportedBitDepth" /\ wav_file' = wav_file)]_vars

\* C3: decoding a WAV file of any sample width whose recovered bytes do not
\* hold the marker ends in NotEncoded, never in an exception.
ForeignInputRejected ==
    (RanDecoder /\ wav_file.kind = "wav" /\ Find(decoded_bytes, header) = -1) =>
        (last.outcome = "NotEncoded" /\ last.raised = "none")

\* C4 as claimed: after any k >= 1 trailing samples of the base64 part are
\* dropped, decoding ends in CorruptPayload.
TruncationAlwaysCorrupt ==
    (RanDecoder /\ origin.kind = "truncated" /\ Len(text_data) > 0) =>
        last.outcome = "CorruptPayload"

\* C4 as amended: when k is not a multiple of 4 decoding ends in
\* CorruptPayload; when k is a multiple of 4 the rest is whole base64 quads
\* and decoding succeeds with the proper prefix of the payload they encode.
TruncationOutcome ==
    (RanDecoder /\ origin.kind = "truncated" /\ Len(text_data) > 0) =>
        LET remaining == Len(data_with_header) - Len(header) - origin.dropped
        IN IF origin.dropped % 4 # 0
           THEN last.outcome = "CorruptPayload"
           ELSE /\ last.outcome = "Success"
                /\ 3 * (remaining \div 4) < Len(text_data)
                /\ output_text_file = OutputFile(Prefix(text_data, 3 * (remaining \div 4)))

TruncationWitness ==
    /\ RanDecoder
    /\ origin.kind = "truncated"
    /\ origin.dropped = 1
    /\ Len(text_data) = 4
    /\ last.outcome = "CorruptPayload"

\* C5: a command-line run exits 0 only when the requested encoding or
\* decoding completed successfully.
ExitZeroOnlyOnSuccess ==
    (last.op = "main" /\ exit_code = 0) =>
        /\ main(last.argv) \in {"text_to_wav", "wav_to_text"}
        /\ last.outcome = "Success"

\* C6: the decoder changes the output file only when the marker was found and
\* the base64 decode succeeded; on NotEncoded and on CorruptPayload the output
\* path is as it was.
DecoderWritesOnlyOnSuccess ==
    [][/\ output_text_file' # output_text_file =>
            /\ RanDecoder'
            /\ Find(decoded_bytes', header) # -1
            /\ b64decode(encoded_data').ok
       /\ (RanDecoder' /\ last'.outcome \in {"NotEncoded", "CorruptPayload"}) =>
            output_text_file' = output_text_file]_vars

DecoderFailedWitness ==
    /\ RanDecoder
    /\ last.outcome = "CorruptPayload"
    /\ output_text_file = OldOutput

\* C7: the WAV text_to_wav wrote holds one sample per frame byte, in frame
\* order, and the inverse scaling of its first 13 samples gives the marker.
MagicStability ==
    (EncoderMade /\ RanEncoder) =>
        /\ wav_file.kind = "wav"
        /\ wav_file.sampwidth * 8 = origin.bits
        /\ Len(wav_file.raw) = Len(data_with_header) * wav_file.sampwidth
        /\ \A i \in 1..Len(data_with_header) :
              SampleAt(wav_file, i) =
                  CASE origin.bits = 8 -> data_with_header[i]
                    [] origin.bits = 16 -> (data_with_header[i] - 128) * 256
                    [] origin.bits = 32 -> (data_with_header[i] - 128) * 16777216
        /\ Prefix(data_with_header, Len(header)) = header
        /\ Prefix(DecodeSamples(wav_file), Len(header)) = header

MagicStabilityWitness ==
    /\ EncoderMade /\ RanEncoder
    /\ origin.bits = 16
    /\ text_data = Hello

\* C8: for every byte b and depth 8, 16, 32 the sample b, (b-128)*256,
\* (b-128)*16777216 fits the depth's integer format and the decoder's inverse
\* scaling maps it back to b.
ScalingInvertible ==
    LET b == data_with_header[1]
        expected == CASE origin.bits = 8 -> b
                      [] origin.bits = 16 -> (b - 128) * 256
                      [] origin.bits = 32 -> (b - 128) * 16777216
    IN /\ phase \in {"scaled", "unscaled"} =>
            /\ last.raised = "none"
            /\ Len(wav_file.raw) * 8 = origin.bits
            /\ SampleAt(wav_file, 1) = expected
       /\ phase = "unscaled" => decoded_bytes = <<b>>

ScalingWitness ==
    /\ phase = "unscaled"
    /\ origin.bits = 32
    /\ data_with_header = <<255>>

Samples(wav) == [i \in 1..(Len(wav.raw) \div wav.sampwidth) |-> SampleAt(wav, i)]

Divisor(sample_width) == IF sample_width = 2 THEN 256 ELSE 16777216

\* C9 as claimed: every 16-bit or 32-bit sample s is recovered as
\* clamp(0, 255, trunc(s / d) + 128) with a division truncating toward zero.
InverseScaleTruncates ==
    (RanDecoder /\ wav_file.kind = "wav" /\ wav_file.sampwidth \in {2, 4}) =>
        \A i \in 1..Len(decoded_bytes) :
            decoded_bytes[i] =
                Min(255, Max(0, TruncDiv(Samples(wav_file)[i],
                                         Divisor(wav_file.sampwidth)) + 128))

\* C9 as amended: every 16-bit or 32-bit sample s is recovered as
\* floor(s / d) + 128, the byte b in 0..255 with d*(b-128) <= s < d*(b-127).
InverseScaleFloors ==
    (RanDecoder /\ wav_file.kind = "wav" /\ wav_file.sampwidth \in {2, 4}) =>
        /\ Len(decoded_bytes) = Len(Samples(wav_file))
        /\ \A i \in 1..Len(decoded_bytes) :
              LET b == decoded_bytes[i]
                  d == Divisor(wav_file.sampwidth)
              IN /\ b \in Byte
                 /\ Samples(wav_file)[i] - d * (b - 128) \in 0..(d - 1)

InverseScaleWitness ==
    /\ RanDecoder
    /\ wav_file.kind = "wav" /\ wav_file.sampwidth = 2
    /\ origin.kind = "initial"
    /\ Len(decoded_bytes) = 1
    /\ Samples(wav_file)[1] = -1 /\ decoded_bytes[1] = 127

\* C10: the frame text_to_wav builds holds the marker exactly once, at its
\* start, whatever the payload; decoding its WAV extracts exactly the bytes
\* of the frame that follow the marker.
MarkerOnce ==
    /\ RanEncoder => Occurrences(data_with_header, header) = {1}
    /\ (RanDecoder /\ EncoderMade) =>
          /\ Find(decoded_bytes, header) = 0
          /\ encoded_data = Slice(data_with_header, Len(header) + 1)

MarkerOnceWitness ==
    /\ RanDecoder /\ EncoderMade
    /\ text_data = header \o Hello
    /\ last.outcome = "Success"

====
